---- MODULE Spec2Model ----
(***************************************************************************)
(* A model of ai-tracker: the JSON project store (storage/json_store.py),  *)
(* the GitHub client with its TTL cache (fetcher/github_client.py), the    *)
(* three source adapters (fetcher/search.py, trending.py, watchlist.py)    *)
(* and the orchestration of one cycle (main.py, report/markdown.py).       *)
(*                                                                         *)
(* Python dicts are functions whose DOMAIN is the set of keys present;     *)
(* Python None is the value Null.  projects.json is modelled by the value  *)
(* json.load would return for it (fileTable) together with the condition   *)
(* of the file on disk (fileState): json.dump/json.load of a dict of str   *)
(* keys, ints, strs, None and lists gives back an equal dict.              *)
(***************************************************************************)
EXTENDS Integers, Sequences, FiniteSets, TLC

(***************************************************************************)
(* Bounds of the model.                                                    *)
(***************************************************************************)
MaxStars == 2
MaxForks == 1
MaxCalls == 3
MaxDay == 1
MaxTicks == 2
MaxClientCalls == 3
MaxRuns == 2
MaxTextLen == 5
MaxPage == 2
MaxProjects == 11

(***************************************************************************)
(* Program constants.                                                      *)
(***************************************************************************)
CACHE_TTL_SECONDS == 3600
RATE_LIMIT_SLEEP == 60
PER_KEYWORD == 10
TOP_K == 10
API_RATE_LIMIT_BUFFER == 100
ANON_RATE_LIMIT == 60

Ids == {"a/b", "c/d"}
Null == "None"
DescVals == {"llm kit"}

VARIABLES
    fileState,   \* projects.json: "absent" | "complete" | "truncated" | "partial"
    fileTable,   \* the document projects.json holds when it is complete
    today,       \* date.today()
    calls,       \* per identity, the update_project calls made so far
    lastCall,    \* the arguments of the latest update_project call
    cache,       \* GitHubClient._cache: key -> [time, value]
    now,         \* datetime.now(), in seconds
    ticks,       \* the times the clock was advanced between calls
    clientCalls, \* the client calls made so far
    lastRet,     \* what the latest client call did and returned
    noneCauses,  \* the provider signals on which get_repository returned None
    pc,          \* per writer, where it is in update_project
    wArgs,       \* per writer, the arguments of its update_project call
    wLocal,      \* per writer, its local variable projects
    committed,   \* the document of the latest save_projects that completed
    overlap,     \* two writers have had the file open for writing at once
    cyc,         \* where run_tracker is
    runs,        \* the invocations of run_tracker started so far
    provider,    \* what the provider answers on the day of the cycle
    trendingProjects,   \* run_tracker's trending_projects
    searchProjects,     \* run_tracker's search_projects
    watchlistProjects,  \* run_tracker's watchlist_projects
    highlights,  \* the rows of the report's top projects table
    reportSaved, \* the daily report file was written
    idx,         \* the position of the update loop in all_projects
    rate_status, \* run_tracker's rate_status
    fetchedSources,  \* the source adapters run_tracker has called in this run
    saves,       \* the save_projects calls completed in this run
    pos,         \* the place of the fetch phase in the keyword and watchlist lists
    fnOp,        \* the adapter function applied last
    fnArg,       \* its arguments
    fnOut        \* what it returned

storeVars == <<fileState, fileTable, today, calls, lastCall>>
clientVars == <<cache, now, ticks, clientCalls, lastRet, noneCauses>>
workerVars == <<pc, wArgs, wLocal, committed, overlap>>
cycleVars == <<cyc, runs, provider, trendingProjects, searchProjects, watchlistProjects,
               highlights, reportSaved, idx, rate_status, fetchedSources, saves>>
passVars == <<pos>>
fnVars == <<fnOp, fnArg, fnOut>>
vars == <<fileState, fileTable, today, calls, lastCall,
          cache, now, ticks, clientCalls, lastRet, noneCauses,
          pc, wArgs, wLocal, committed, overlap,
          cyc, runs, provider, trendingProjects, searchProjects, watchlistProjects,
          highlights, reportSaved, idx, rate_status, fetchedSources, saves,
          pos, fnOp, fnArg, fnOut>>

(***************************************************************************)
(* dict helpers                                                            *)
(***************************************************************************)
\* d.get(k, default)
Get(d, k, default) == IF k \in DOMAIN d THEN d[k] ELSE default

\* d[k] = v
Put(d, k, v) == [x \in DOMAIN d \cup {k} |-> IF x = k THEN v ELSE d[x]]

\* {**existing, **data}
Merge(existing, data) ==
    [k \in DOMAIN existing \cup DOMAIN data |->
        IF k \in DOMAIN data THEN data[k] ELSE existing[k]]

EmptyDict == [k \in {} |-> 0]

(***************************************************************************)
(* Python str operations, on TLA+ strings                                  *)
(***************************************************************************)
\* The strings of at most n characters over chars.
RECURSIVE Texts(_, _)
Texts(chars, n) ==
    IF n = 0 THEN {""}
    ELSE LET shorter == Texts(chars, n - 1)
         IN  shorter \cup { t \o c : t \in shorter, c \in chars }

\* str.lower() of one character
LowerChar(c) ==
    CASE c = "A" -> "a" [] c = "I" -> "i" [] c = "K" -> "k"
      [] c = "L" -> "l" [] c = "M" -> "m" [] OTHER -> c

\* str.lower()
RECURSIVE Lower(_)
Lower(text) ==
    IF text = "" THEN ""
    ELSE LowerChar(SubSeq(text, 1, 1)) \o Lower(SubSeq(text, 2, Len(text)))

\* text.replace(old, new): every occurrence, leftmost first, none overlapping
RECURSIVE Replace(_, _, _)
Replace(text, old, new) ==
    IF Len(text) < Len(old) THEN text
    ELSE IF SubSeq(text, 1, Len(old)) = old
         THEN new \o Replace(SubSeq(text, Len(old) + 1, Len(text)), old, new)
         ELSE SubSeq(text, 1, 1) \o Replace(SubSeq(text, 2, Len(text)), old, new)

\* kw in text
Contains(text, kw) ==
    \E i \in 0..(Len(text) - Len(kw)) : SubSeq(text, i + 1, i + Len(kw)) = kw

Digits == {"0", "1", "2", "3", "4", "5", "6", "7", "8", "9"}

IsDigits(text) == \A i \in 1..Len(text) : SubSeq(text, i, i) \in Digits

DigitValue(c) ==
    CASE c = "0" -> 0 [] c = "1" -> 1 [] c = "2" -> 2 [] c = "3" -> 3 [] c = "4" -> 4
      [] c = "5" -> 5 [] c = "6" -> 6 [] c = "7" -> 7 [] c = "8" -> 8 [] c = "9" -> 9

\* The number a string of digits writes ("" gives 0).
RECURSIVE DigitsValue(_)
DigitsValue(text) ==
    IF text = "" THEN 0
    ELSE 10 * DigitsValue(SubSeq(text, 1, Len(text) - 1))
         + DigitValue(SubSeq(text, Len(text), Len(text)))

\* The positions of the character c in text.
Positions(text, c) == { i \in 1..Len(text) : SubSeq(text, i, i) = c }

\* float(text) does not raise ValueError: digits with at most one point and
\* a digit on one side of it at least.
IsFloatText(text) ==
    /\ IsDigits(Replace(text, ".", ""))
    /\ Replace(text, ".", "") # ""
    /\ Cardinality(Positions(text, ".")) <= 1

\* int(float(text)) for such a text: the fraction is cut off.
IntOfFloat(text) ==
    IF Positions(text, ".") = {} THEN DigitsValue(text)
    ELSE LET dot == CHOOSE i \in Positions(text, ".") : TRUE
         IN  DigitsValue(SubSeq(text, 1, dot - 1))

(***************************************************************************)
(* Snapshots as the adapters build them.                                   *)
(***************************************************************************)
\* GitHubClient._extract_repo_data: stars and forks are always integers,
\* description may be None.
RepoData(id) ==
    { [full_name |-> id, stars |-> s, forks |-> f, description |-> d] :
        s \in 1..MaxStars, f \in 1..MaxForks, d \in DescVals \cup {Null} }

\* A repository dict as search_ai_projects / fetch_watchlist tag it.
Tagged(repo, src) == [k \in DOMAIN repo \cup {"source"} |->
                        IF k = "source" THEN src ELSE repo[k]]

ApiSnapshots(id) == { Tagged(r, "watchlist") : r \in RepoData(id) }

\* full_name.split("/")[-1] if "/" in full_name else full_name
LastSegment(full_name) ==
    IF Positions(full_name, "/") = {} THEN full_name
    ELSE LET slash == CHOOSE i \in Positions(full_name, "/") :
                          \A j \in Positions(full_name, "/") : j <= i
         IN  SubSeq(full_name, slash + 1, Len(full_name))

\* trending._parse_trending_page: no forks key, description is a str.
TrendingSnapshots(id) ==
    { [full_name |-> id, name |-> LastSegment(id), stars |-> s, stars_delta |-> s,
       description |-> d, source |-> "trending"] :
        s \in 1..MaxStars, d \in DescVals }

Snapshots(id) == ApiSnapshots(id) \cup TrendingSnapshots(id)

(***************************************************************************)
(* json_store.load_projects / update_project / save_projects               *)
(***************************************************************************)
\* load_projects: {} when the file does not exist, else the parsed document.
load_projects == IF fileState = "absent" THEN EmptyDict ELSE fileTable

\* A history entry that ignores the stored record.
HistoryEntryBlank(existing, day) == [date |-> day, stars |-> 0, forks |-> 0]

\* The entry update_project appends: the stars/forks of the stored record.
HistoryEntry(existing, day) ==
    [date |-> day, stars |-> Get(existing, "stars", 0), forks |-> Get(existing, "forks", 0)]

\* A history that is started afresh on every call.
AppendHistoryFresh(existing, day) == <<HistoryEntry(existing, day)>>

\* existing["history"] after lines 58-64.

AppendHistory(existing, day) ==
    Append(Get(existing, "history", <<>>), HistoryEntry(existing, day))

\* The dict update_project hands to save_projects (lines 55-67).
UpdatedProjects(projects, full_name, data, day) ==
    IF full_name \in DOMAIN projects
    THEN LET existing == Put(projects[full_name], "history",
                             AppendHistory(projects[full_name], day))
         IN  Put(projects, full_name, Merge(existing, data))
    ELSE Put(projects, full_name, data)

\* The update_project calls made so far, over all identities.
RECURSIVE SumOver(_, _)
SumOver(f, S) ==
    IF S = {} THEN 0
    ELSE LET x == CHOOSE y \in S : TRUE IN f[x] + SumOver(f, S \ {x})

TotalCalls == SumOver(calls, Ids)

\* update_project(full_name, data), run to completion with no other writer.
UpdateProject(full_name, data) ==
    /\ fileState \in {"absent", "complete"}
    /\ TotalCalls < MaxCalls
    /\ fileTable' = UpdatedProjects(load_projects, full_name, data, today)
    /\ fileState' = "complete"
    /\ calls' = [calls EXCEPT ![full_name] = @ + 1]
    /\ lastCall' = [full_name |-> full_name, data |-> data]
    /\ UNCHANGED <<fnVars, passVars, today, clientVars, workerVars, cycleVars>>

\* Midnight passes between two calls.
NextDay ==
    /\ today < MaxDay
    /\ today' = today + 1
    /\ UNCHANGED <<fnVars, passVars, fileState, fileTable, calls, lastCall, clientVars, workerVars,
                   cycleVars>>

StoreNext ==
    \/ \E id \in Ids : \E data \in Snapshots(id) : UpdateProject(id, data)
    \/ NextDay

(***************************************************************************)
(* fetcher/github_client.py: GitHubClient                                  *)
(***************************************************************************)
\* The arguments search_ai_projects passes to search_repositories.
Keywords == <<"llm", "AI">>

\* search_ai_projects line 30
SearchQuery(keyword) == keyword \o " language:python OR language:typescript"

SearchParams ==
    { [query |-> SearchQuery(Keywords[i]), sort |-> "stars", order |-> "desc",
       per_page |-> PER_KEYWORD] : i \in 1..Len(Keywords) }

\* cache_key = ("search", f"{query}-{sort}-{order}-{per_page}"): the four
\* parameters as text, joined by "-".
SearchKey(p) ==
    <<"search",
      p.query \o "-" \o p.sort \o "-" \o p.order \o "-" \o ToString(p.per_page)>>

\* cache_key = ("repo", full_name)
RepoKey(full_name) == <<"repo", full_name>>

\* What the provider can answer: a repository as _extract_repo_data reads it.
ProviderRepos(id) == { r \in RepoData(id) : r.forks = 1 /\ r.description = Null }

\* The result pages of a search.
SearchReplies == {<< >>} \cup { <<r>> : r \in ProviderRepos("a/b") }

\* results[:per_page]
Take(seq, n) == SubSeq(seq, 1, IF Len(seq) < n THEN Len(seq) ELSE n)

\* An expiry test that still serves an entry exactly TTL old.
CacheFreshInclusive(c, key, t) ==
    /\ key \in DOMAIN c
    /\ t - c[key].time <= CACHE_TTL_SECONDS

\* _get_cached returns the stored value: the key is present and not expired.
CacheFresh(c, key, t) ==
    /\ key \in DOMAIN c
    /\ t - c[key].time < CACHE_TTL_SECONDS

\* self._cache after _get_cached: an expired entry is deleted.
CacheAfterGet(c, key, t) ==
    IF key \in DOMAIN c /\ ~CacheFresh(c, key, t)
    THEN [k \in DOMAIN c \ {key} |-> c[k]]
    ELSE c

\* _set_cached
SetCached(c, key, value, t) == Put(c, key, [time |-> t, value |-> value])

\* An except branch that stores what it returns.
ReturnCached(c, key, value, t) == SetCached(c, key, value, t)

\* self._cache after an except branch of search_repositories (lines 97-104)
\* or get_repository (lines 126-132): the branch returns value and does not
\* call _set_cached.
ReturnUncached(c, key, value, t) == c

\* The provider's signals: a result, RateLimitExceededException, another
\* GithubException (not found among them), or an exception that is no
\* GithubException.
Signals == {"ok", "ratelimit", "notfound", "raise"}

Ret(op, key, signal, requests, evicted, value) ==
    [op |-> op, key |-> key, signal |-> signal, requests |-> requests,
     evicted |-> evicted, value |-> value]

\* search_repositories(query, sort, order, per_page)
SearchRepositories(p, signal, reply) ==
    LET key == SearchKey(p)
        evicted == key \in DOMAIN cache /\ ~CacheFresh(cache, key, now)
        c1 == CacheAfterGet(cache, key, now)
    IN  /\ clientCalls < MaxClientCalls
        /\ clientCalls' = clientCalls + 1
        /\ IF CacheFresh(cache, key, now)
           THEN /\ lastRet' = Ret("search", key, "hit", 0, FALSE, cache[key].value)
                /\ cache' = c1
                /\ now' = now
           ELSE CASE signal = "ok" ->
                       /\ cache' = SetCached(c1, key, Take(reply, p.per_page), now)
                       /\ lastRet' = Ret("search", key, "ok", 1, evicted,
                                         Take(reply, p.per_page))
                       /\ now' = now
                  [] signal = "ratelimit" ->
                       \* _handle_rate_limit: time.sleep(60), then return []
                       /\ cache' = ReturnUncached(c1, key, << >>, now)
                       /\ lastRet' = Ret("search", key, "ratelimit", 1, evicted, << >>)
                       /\ now' = now + RATE_LIMIT_SLEEP
                  [] signal = "notfound" ->
                       /\ cache' = ReturnUncached(c1, key, << >>, now)
                       /\ lastRet' = Ret("search", key, "notfound", 1, evicted, << >>)
                       /\ now' = now
                  [] signal = "raise" ->
                       /\ cache' = ReturnUncached(c1, key, << >>, now)
                       /\ lastRet' = Ret("search", key, "raise", 1, evicted, << >>)
                       /\ now' = now
        /\ UNCHANGED <<fnVars, passVars, ticks, noneCauses, storeVars, workerVars, cycleVars>>

\* get_repository(full_name)
GetRepository(full_name, signal, reply) ==
    LET key == RepoKey(full_name)
        evicted == key \in DOMAIN cache /\ ~CacheFresh(cache, key, now)
        c1 == CacheAfterGet(cache, key, now)
    IN  /\ clientCalls < MaxClientCalls
        /\ clientCalls' = clientCalls + 1
        /\ now' = now
        /\ IF CacheFresh(cache, key, now)
           THEN /\ lastRet' = Ret("repo", key, "hit", 0, FALSE, cache[key].value)
                /\ cache' = c1
                /\ UNCHANGED noneCauses
           ELSE CASE signal = "ok" ->
                       /\ cache' = SetCached(c1, key, reply, now)
                       /\ lastRet' = Ret("repo", key, "ok", 1, evicted, reply)
                       /\ UNCHANGED noneCauses
                  [] signal \in {"ratelimit", "notfound"} ->
                       /\ cache' = ReturnUncached(c1, key, Null, now)
                       /\ lastRet' = Ret("repo", key, signal, 1, evicted, Null)
                       /\ noneCauses' = noneCauses \cup {signal}
                  [] signal = "raise" ->
                       /\ cache' = ReturnUncached(c1, key, Null, now)
                       /\ lastRet' = Ret("repo", key, "raise", 1, evicted, Null)
                       /\ UNCHANGED noneCauses
        /\ UNCHANGED <<fnVars, passVars, ticks, storeVars, workerVars, cycleVars>>

\* The commits and the contributors the provider can list for a repository.
CommitReplies == { << >>, <<[sha |-> "c1", author |-> "Unknown"]>> }
ContributorReplies == { <<[login |-> "u1", contributions |-> 1]>> }

\* get_recent_commits(full_name, limit): the request is made on every call,
\* _get_cached and _set_cached are not used; a GithubException (a rate limit
\* is one) gives [], any other exception goes to the caller.  lastRet notes
\* under "at" when the call was made.
GetRecentCommits(full_name, limit, signal, reply) ==
    /\ clientCalls < MaxClientCalls
    /\ clientCalls' = clientCalls + 1
    /\ lastRet' = Put(Ret("commits", <<"commits", full_name, limit>>, signal, 1, FALSE,
                          IF signal = "ok" THEN Take(reply, limit) ELSE << >>),
                      "at", now)
    /\ UNCHANGED <<fnVars, passVars, cache, now, ticks, noneCauses, storeVars, workerVars, cycleVars>>

\* get_contributors(full_name, limit): the same, for the contributors.
GetContributors(full_name, limit, signal, reply) ==
    /\ clientCalls < MaxClientCalls
    /\ clientCalls' = clientCalls + 1
    /\ lastRet' = Put(Ret("contributors", <<"contributors", full_name, limit>>, signal, 1,
                          FALSE, IF signal = "ok" THEN Take(reply, limit) ELSE << >>),
                      "at", now)
    /\ UNCHANGED <<fnVars, passVars, cache, now, ticks, noneCauses, storeVars, workerVars, cycleVars>>

\* Time passes between two calls.
TickSteps == {1, CACHE_TTL_SECONDS - 1}

Tick(d) ==
    /\ ticks < MaxTicks
    /\ ticks' = ticks + 1
    /\ now' = now + d
    /\ UNCHANGED <<fnVars, passVars, cache, clientCalls, lastRet, noneCauses, storeVars,
                   workerVars, cycleVars>>

ClientNext ==
    \/ \E p \in SearchParams, signal \in Signals, reply \in SearchReplies :
          SearchRepositories(p, signal, reply)
    \/ \E id \in Ids, signal \in Signals : \E reply \in ProviderRepos(id) :
          GetRepository(id, signal, reply)
    \/ \E d \in TickSteps : Tick(d)

\* The calls fetch_watchlist makes after get_repository (limit=5), and time
\* passing between them.
ListingsNext ==
    \/ \E id \in Ids, signal \in Signals, reply \in CommitReplies :
          GetRecentCommits(id, 5, signal, reply)
    \/ \E id \in Ids, signal \in Signals, reply \in ContributorReplies :
          GetContributors(id, 5, signal, reply)
    \/ \E d \in TickSteps : Tick(d)

(***************************************************************************)
(* update_project step by step: writers that interleave, and crashes.      *)
(* A writer is a process running update_project (an overlapping            *)
(* invocation of the tracker); nothing in json_store.py locks the file.    *)
(***************************************************************************)
Writers == {1, 2}

\* load_projects (lines 53, 18-29) and the changes of lines 55-67, which
\* touch only the writer's own dict.  json.load raises on a file that is
\* empty or cut short, and update_project lets the exception through.
WLoad(w, full_name, data) ==
    /\ pc[w] = "idle"
    /\ wArgs' = [wArgs EXCEPT ![w] = [full_name |-> full_name, data |-> data]]
    /\ IF fileState \in {"truncated", "partial"}
       THEN /\ pc' = [pc EXCEPT ![w] = "failed"]
            /\ UNCHANGED wLocal
       ELSE /\ pc' = [pc EXCEPT ![w] = "loaded"]
            /\ wLocal' = [wLocal EXCEPT ![w] =
                            UpdatedProjects(load_projects, full_name, data, today)]
    /\ UNCHANGED <<fnVars, passVars, fileState, fileTable, committed, overlap, today, calls, lastCall,
                   clientVars, cycleVars>>

\* save_projects line 39: open(PROJECTS_FILE, "w") empties the file.
WOpen(w) ==
    /\ pc[w] = "loaded"
    /\ pc' = [pc EXCEPT ![w] = "opened"]
    /\ fileState' = "truncated"
    /\ overlap' = (overlap \/ \E v \in Writers \ {w} : pc[v] \in {"opened", "writing"})
    /\ UNCHANGED <<fnVars, passVars, fileTable, wArgs, wLocal, committed, today, calls, lastCall,
                   clientVars,
                   cycleVars>>

\* save_projects line 40: json.dump writes the document piece by piece; the
\* buffer is flushed when it fills, so a part of a document can be on disk.
WDump(w) ==
    /\ pc[w] = "opened"
    /\ pc' = [pc EXCEPT ![w] = "writing"]
    /\ fileState' = "partial"
    /\ UNCHANGED <<fnVars, passVars, fileTable, wArgs, wLocal, committed, overlap, today, calls,
                   lastCall,
                   clientVars, cycleVars>>

\* The with block ends: the rest is flushed and the file closed.  When
\* another writer wrote to the file meanwhile, the bytes of both are mixed
\* and the result may be this writer's document or no document at all.
WClose(w, mixed) ==
    /\ pc[w] \in {"opened", "writing"}
    /\ pc' = [pc EXCEPT ![w] = "done"]
    /\ mixed => overlap
    /\ IF mixed
       THEN /\ fileState' = "partial"
            /\ UNCHANGED <<fileTable, committed>>
       ELSE /\ fileState' = "complete"
            /\ fileTable' = wLocal[w]
            /\ committed' = wLocal[w]
    /\ overlap' = (overlap /\ \E v \in Writers \ {w} : pc[v] \in {"opened", "writing"})
    /\ UNCHANGED <<fnVars, passVars, wArgs, wLocal, today, calls, lastCall, clientVars, cycleVars>>

\* The process is killed inside update_project.
Crash(w) ==
    /\ pc[w] \in {"loaded", "opened", "writing"}
    /\ pc' = [pc EXCEPT ![w] = "crashed"]
    /\ UNCHANGED <<fnVars, passVars, fileState, fileTable, wArgs, wLocal, committed, overlap,
                   today, calls,
                   lastCall, clientVars, cycleVars>>

WorkersNext ==
    \/ \E w \in Writers, id \in Ids : \E data \in Snapshots(id) : WLoad(w, id, data)
    \/ \E w \in Writers : WOpen(w)
    \/ \E w \in Writers : WDump(w)
    \/ \E w \in Writers, mixed \in BOOLEAN : WClose(w, mixed)
    \/ \E w \in Writers : Crash(w)

(***************************************************************************)
(* The source adapters and main.run_tracker                                *)
(***************************************************************************)
WATCHLIST == <<"a/b", "c/d">>
TRENDING_LANGUAGES == <<"Python", "Rust">>

\* repo.get("stars", 0)
StarsOf(repo) == Get(repo, "stars", 0)

\* An insertion that puts an element before those of equal stars.
InsertByStarsFirst(sorted, x) ==
    LET k == Cardinality({ i \in 1..Len(sorted) : StarsOf(sorted[i]) > StarsOf(x) })
    IN  SubSeq(sorted, 1, k) \o <<x>> \o SubSeq(sorted, k + 1, Len(sorted))

\* list.sort / sorted with key stars and reverse=True: a stable sort, so an
\* element goes behind every element that has at least its stars.
InsertByStars(sorted, x) ==
    LET k == Cardinality({ i \in 1..Len(sorted) : StarsOf(sorted[i]) >= StarsOf(x) })
    IN  SubSeq(sorted, 1, k) \o <<x>> \o SubSeq(sorted, k + 1, Len(sorted))

RECURSIVE SortPrefix(_, _)
SortPrefix(seq, n) ==
    IF n = 0 THEN << >> ELSE InsertByStars(SortPrefix(seq, n - 1), seq[n])

SortByStarsDesc(seq) == SortPrefix(seq, Len(seq))

\* The identities of a list of repository dicts.
NamesOf(seq) == { Get(seq[i], "full_name", "") : i \in 1..Len(seq) }

\* search_ai_projects lines 48-50: the tags put on a search result.
TagSearch(repo, keyword) ==
    [k \in DOMAIN repo \cup {"source", "source_keyword"} |->
        IF k = "source" THEN "search"
        ELSE IF k = "source_keyword" THEN keyword ELSE repo[k]]

\* A loop that appends every result, seen or not.
RECURSIVE AppendAll(_, _, _, _)
AppendAll(acc, results, keyword, n) ==
    IF n = 0 THEN acc
    ELSE Append(AppendAll(acc, results, keyword, n - 1), TagSearch(results[n], keyword))

\* search_ai_projects lines 40-52: the results of one keyword, less those
\* whose full_name was seen.
RECURSIVE AppendUnseen(_, _, _, _)
AppendUnseen(acc, results, keyword, n) ==
    IF n = 0 THEN acc
    ELSE LET before == AppendUnseen(acc, results, keyword, n - 1)
             repo == results[n]
         IN  IF Get(repo, "full_name", "") \in NamesOf(before)
             THEN before
             ELSE Append(before, TagSearch(repo, keyword))

\* search_ai_projects lines 29-58: the keywords in configured order.
RECURSIVE SearchCollect(_, _)
SearchCollect(replies, n) ==
    IF n = 0 THEN << >>
    ELSE AppendUnseen(SearchCollect(replies, n - 1), replies[n], Keywords[n],
                      Len(replies[n]))

\* search_ai_projects(client, per_keyword): replies[i] is what
\* search_repositories returned for the i-th keyword.
search_ai_projects(replies) == SortByStarsDesc(SearchCollect(replies, Len(Keywords)))

\* fetch_watchlist lines 36-43: the dict appended for a fetched identity
\* (get_recent_commits and get_contributors answer with empty lists here).
TagWatchlist(repo) ==
    [k \in DOMAIN repo \cup {"source", "recent_commits", "contributors"} |->
        IF k = "source" THEN "watchlist"
        ELSE IF k \in {"recent_commits", "contributors"} THEN << >> ELSE repo[k]]

\* The try block of fetch_watchlist (lines 26-43) runs to its end for the
\* identity: get_repository returned a dict, and neither get_recent_commits
\* nor get_contributors raised (both return [] on a GithubException and let
\* any other exception through).
Fetched(outcome) ==
    /\ outcome.signal = "ok"
    /\ Get(outcome, "commits", "ok") # "raise"
    /\ Get(outcome, "contributors", "ok") # "raise"

\* A loop that ends at the first identity that fails.
RECURSIVE WatchPrefixBreak(_, _)
WatchPrefixBreak(outcomes, n) ==
    IF n = 0 THEN << >>
    ELSE IF \A i \in 1..n : Fetched(outcomes[i])
         THEN Append(WatchPrefixBreak(outcomes, n - 1), TagWatchlist(outcomes[n].value))
         ELSE WatchPrefixBreak(outcomes, n - 1)

\* fetch_watchlist(client): outcomes[i] is what the calls for the i-th
\* identity did; an identity whose get_repository gave None, or for which a
\* call raised, is skipped (continue).
RECURSIVE WatchPrefix(_, _)
WatchPrefix(outcomes, n) ==
    IF n = 0 THEN << >>
    ELSE IF Fetched(outcomes[n])
         THEN Append(WatchPrefix(outcomes, n - 1), TagWatchlist(outcomes[n].value))
         ELSE WatchPrefix(outcomes, n - 1)

fetch_watchlist(outcomes) == WatchPrefix(outcomes, Len(WATCHLIST))

\* A test that also lets an unchanged star count through.
IsGrowthOrStasis(star_delta) == star_delta >= 0

\* get_watchlist_changes line 78: if star_delta > 0
IsGrowth(star_delta) == star_delta > 0

\* get_watchlist_changes lines 70-76: current stars less the stars of the
\* identity in previous_data (0 when previous_data does not hold it).
StarDelta(repo, previous_data) ==
    LET prev == Get(previous_data, Get(repo, "full_name", ""), EmptyDict)
    IN  Get(repo, "stars", 0) - Get(prev, "stars", 0)

\* changes.sort(key=stars_delta, reverse=True): a stable sort.
InsertByDelta(sorted, x) ==
    LET k == Cardinality({ i \in 1..Len(sorted) :
                             Get(sorted[i], "stars_delta", 0) >= Get(x, "stars_delta", 0) })
    IN  SubSeq(sorted, 1, k) \o <<x>> \o SubSeq(sorted, k + 1, Len(sorted))

\* get_watchlist_changes lines 69-83, over the first n fetched entries.
RECURSIVE ChangesPrefix(_, _, _)
ChangesPrefix(current_data, previous_data, n) ==
    IF n = 0 THEN << >>
    ELSE LET repo == current_data[n]
             star_delta == StarDelta(repo, previous_data)
             changes == ChangesPrefix(current_data, previous_data, n - 1)
         IN  IF IsGrowth(star_delta)
             THEN InsertByDelta(changes, Put(repo, "stars_delta", star_delta))
             ELSE changes

\* get_watchlist_changes(client, previous_data)
get_watchlist_changes(outcomes, previous_data) ==
    LET current_data == fetch_watchlist(outcomes)
    IN  ChangesPrefix(current_data, previous_data, Len(current_data))

\* A test that compares the lowered text with the keywords as configured.
IsAiProjectExact(repo) ==
    LET text == Lower(Get(repo, "name", "") \o " " \o Get(repo, "description", ""))
    IN  \E i \in 1..Len(Keywords) : Contains(text, Keywords[i])

\* _filter_ai_projects lines 143-150: the lowered text of name, a space and
\* description contains one of the lowered keywords.
IsAiProject(repo) ==
    LET text == Lower(Get(repo, "name", "") \o " " \o Get(repo, "description", ""))
    IN  \E i \in 1..Len(Keywords) : Contains(text, Lower(Keywords[i]))

\* _filter_ai_projects(repos)
RECURSIVE FilterAi(_, _)
FilterAi(repos, n) ==
    IF n = 0 THEN << >>
    ELSE IF IsAiProject(repos[n])
         THEN Append(FilterAi(repos, n - 1), repos[n])
         ELSE FilterAi(repos, n - 1)

\* fetch_ai_trending: listings[i] is the parsed page of the i-th language.
RECURSIVE TrendingPrefix(_, _)
TrendingPrefix(listings, n) ==
    IF n = 0 THEN << >>
    ELSE TrendingPrefix(listings, n - 1) \o FilterAi(listings[n], Len(listings[n]))

fetch_ai_trending(listings) == TrendingPrefix(listings, Len(TRENDING_LANGUAGES))

\* What the provider shows of a repository on the day of the cycle.
DayRepo(stars, id) == [full_name |-> id, stars |-> stars[id], forks |-> 1,
                       description |-> Null]

DayTrending(stars, id, text) ==
    [full_name |-> id, name |-> LastSegment(id), stars |-> stars[id],
     stars_delta |-> stars[id], description |-> text, source |-> "trending"]

\* The result pages of a keyword search and the trending pages of a language.
SearchPages(stars) ==
    { << >>, <<DayRepo(stars, "a/b")>>, <<DayRepo(stars, "c/d")>>,
      <<DayRepo(stars, "a/b"), DayRepo(stars, "c/d")>> }

TrendingPages(stars) ==
    { << >>,
      <<DayTrending(stars, "c/d", "web app"), DayTrending(stars, "a/b", "llm kit")>> }

WatchOutcomes(stars, id) ==
    { [signal |-> "ok", value |-> DayRepo(stars, id)],
      [signal |-> "notfound", value |-> EmptyDict] }

\* get_rate_limit_status: without a token the fixed anonymous quota, else
\* what the provider reports for the core resource.
get_rate_limit_status(token, core) ==
    IF ~token
    THEN [remaining |-> ANON_RATE_LIMIT, limit |-> ANON_RATE_LIMIT, reset |-> 0]
    ELSE [remaining |-> core.remaining, limit |-> core.limit, reset |-> core.reset]

\* The token GITHUB_TOKEN holds (or none) and the provider's core quota.
QuotaDays ==
    { [token |-> FALSE, core |-> [remaining |-> 60, limit |-> 60, reset |-> 0]],
      [token |-> TRUE, core |-> [remaining |-> 5, limit |-> 5000, reset |-> 1]],
      [token |-> TRUE, core |-> [remaining |-> 5000, limit |-> 5000, reset |-> 1]] }

ProviderDays ==
    UNION { { [stars |-> st, trending |-> t, search |-> s, watch |-> w, quota |-> q] :
                q \in QuotaDays,
                t \in [1..Len(TRENDING_LANGUAGES) -> TrendingPages(st)],
                s \in [1..Len(Keywords) -> SearchPages(st)],
                w \in { f \in [1..Len(WATCHLIST) ->
                                  UNION { WatchOutcomes(st, i) : i \in Ids }] :
                          \A i \in 1..Len(WATCHLIST) :
                              f[i] \in WatchOutcomes(st, WATCHLIST[i]) } } :
            st \in [Ids -> 1..MaxStars] }

\* run_tracker line 83 (and generate_daily_report line 106)
all_projects == trendingProjects \o searchProjects \o watchlistProjects

\* A table that is sorted and not cut.
TopProjectsUncut(projects) == SortByStarsDesc(projects)

\* generate_daily_report lines 116-120: sorted(...)[:10]
TopProjects(projects) == Take(SortByStarsDesc(projects), TOP_K)

\* run_tracker lines 50-68: the quota status is read and, when remaining is
\* under 10, a warning logged; then the three adapters run, one after the
\* other, whatever the status was.
CycleFetch ==
    /\ cyc = "start"
    /\ runs < MaxRuns
    /\ runs' = runs + 1
    /\ cyc' = "fetched"
    /\ rate_status' = get_rate_limit_status(provider.quota.token, provider.quota.core)
    /\ fetchedSources' = {"trending", "search", "watchlist"}
    /\ saves' = 0
    /\ trendingProjects' = fetch_ai_trending(provider.trending)
    /\ searchProjects' = search_ai_projects(provider.search)
    /\ watchlistProjects' = fetch_watchlist(provider.watch)
    /\ highlights' = << >>
    /\ reportSaved' = FALSE
    /\ idx' = 1
    /\ UNCHANGED <<fnVars, passVars, provider, storeVars, clientVars, workerVars>>

\* run_tracker lines 70-80: generate_daily_report and save_daily_report.
CycleReport ==
    /\ cyc = "fetched"
    /\ cyc' = "reported"
    /\ highlights' = TopProjects(all_projects)
    /\ reportSaved' = TRUE
    /\ UNCHANGED <<fnVars, passVars, rate_status, fetchedSources, saves, runs, provider,
                   trendingProjects, searchProjects, watchlistProjects, idx,
                   storeVars, clientVars, workerVars>>

\* run_tracker lines 84-87: one turn of the loop.  update_project raises
\* when projects.json does not parse, and run_tracker lets that through.
CycleUpdate ==
    /\ cyc = "reported"
    /\ idx <= Len(all_projects)
    /\ LET repo == all_projects[idx]
           full_name == Get(repo, "full_name", "")
       IN  IF full_name = ""
           THEN UNCHANGED <<fileState, fileTable, committed, cyc, saves>>
           ELSE IF fileState \in {"truncated", "partial"}
                THEN /\ cyc' = "failed"
                     /\ UNCHANGED <<fileState, fileTable, committed, saves>>
                ELSE /\ fileTable' = UpdatedProjects(load_projects, full_name, repo, today)
                     /\ fileState' = "complete"
                     /\ committed' = fileTable'
                     /\ saves' = saves + 1
                     /\ UNCHANGED cyc
    /\ idx' = idx + 1
    /\ UNCHANGED <<fnVars, passVars, rate_status, fetchedSources, runs, provider, trendingProjects,
                   searchProjects, watchlistProjects,
                   highlights, reportSaved, today, calls, lastCall, clientVars,
                   pc, wArgs, wLocal, overlap>>

\* run_tracker lines 89-102: the loop is over.
CycleFinish ==
    /\ cyc = "reported"
    /\ idx > Len(all_projects)
    /\ cyc' = "done"
    /\ UNCHANGED <<fnVars, passVars, rate_status, fetchedSources, saves, runs, provider,
                   trendingProjects, searchProjects, watchlistProjects,
                   highlights, reportSaved, idx, storeVars, clientVars, workerVars>>

\* The process dies between two statements of run_tracker.
CycleCrash ==
    /\ cyc \in {"fetched", "reported"}
    /\ cyc' = "crashed"
    /\ UNCHANGED <<fnVars, passVars, rate_status, fetchedSources, saves, runs, provider,
                   trendingProjects, searchProjects, watchlistProjects,
                   highlights, reportSaved, idx, storeVars, clientVars, workerVars>>

\* The process dies inside save_projects of the loop's update_project call:
\* the file was opened for writing and holds nothing yet, or a part.
CycleCrashInSave(left) ==
    /\ cyc = "reported"
    /\ idx <= Len(all_projects)
    /\ Get(all_projects[idx], "full_name", "") # ""
    /\ fileState \in {"absent", "complete"}
    /\ cyc' = "crashed"
    /\ fileState' = left
    /\ UNCHANGED <<fnVars, passVars, rate_status, fetchedSources, saves, runs, provider,
                   trendingProjects, searchProjects, watchlistProjects,
                   highlights, reportSaved, idx, fileTable, today, calls, lastCall,
                   clientVars, workerVars>>

\* An OSError inside save_projects of the loop's update_project call (the
\* file cannot be opened, or the device is full while json.dump writes):
\* update_project and run_tracker let it through, main catches it.  The file
\* is as it was, or holds nothing, or a part.
CycleSaveError(left) ==
    /\ cyc = "reported"
    /\ idx <= Len(all_projects)
    /\ Get(all_projects[idx], "full_name", "") # ""
    /\ fileState \in {"absent", "complete"}
    /\ cyc' = "failed"
    /\ fileState' = IF left = "kept" THEN fileState ELSE left
    /\ UNCHANGED <<fnVars, passVars, rate_status, fetchedSources, saves, runs, provider,
                   trendingProjects, searchProjects, watchlistProjects,
                   highlights, reportSaved, idx, fileTable, today, calls, lastCall,
                   clientVars, workerVars>>

\* main lines 133-137: an exception of run_tracker ends the process with
\* sys.exit(1); a run_tracker that returns ends it with status 0.
ExitStatus == IF cyc = "failed" THEN 1 ELSE 0

\* The tracker is started again for the same date.
Rerun ==
    /\ cyc = "crashed"
    /\ runs < MaxRuns
    /\ cyc' = "start"
    /\ UNCHANGED <<fnVars, passVars, rate_status, fetchedSources, saves, runs, provider,
                   trendingProjects, searchProjects, watchlistProjects,
                   highlights, reportSaved, idx, storeVars, clientVars, workerVars>>

CycleNext ==
    \/ CycleFetch
    \/ CycleReport
    \/ CycleUpdate
    \/ CycleFinish
    \/ CycleCrash
    \/ \E left \in {"truncated", "partial"} : CycleCrashInSave(left)
    \/ \E left \in {"kept", "truncated", "partial"} : CycleSaveError(left)
    \/ Rerun

(***************************************************************************)
(* The fetch phase of run_tracker (lines 62-68) call by call: one turn of  *)
(* the loop of search_ai_projects per keyword, then one turn of the loop   *)
(* of fetch_watchlist per identity, against one GitHubClient.  A list or   *)
(* dict that search_repositories or get_repository returns is the object   *)
(* the cache holds (lines 82, 94-95, 118, 123-124), so what an adapter     *)
(* writes into it is written into the cache entry.                         *)
(***************************************************************************)
PlanLen == Len(Keywords) + Len(WATCHLIST)

\* A loop that calls again for the same place while the provider throttles.
NextPlaceRetry(place, signal) == IF signal = "ratelimit" THEN place ELSE place + 1

\* The for loops of search_ai_projects (line 29) and fetch_watchlist (line
\* 24) go on to the next element whatever the call did: the client returned
\* [] or None, or the except branch of the loop ran (continue).
NextPlace(place, signal) == place + 1

\* search_ai_projects lines 40-50 as seen from the list results: the dict of
\* a full_name not seen before gets the tags, the others stay as they are.
MarkUnseen(results, seen, keyword) ==
    [i \in 1..Len(results) |->
        IF /\ Get(results[i], "full_name", "") \notin seen
           /\ \A j \in 1..(i - 1) :
                 Get(results[j], "full_name", "") # Get(results[i], "full_name", "")
        THEN TagSearch(results[i], keyword)
        ELSE results[i]]

\* search_ai_projects lines 29-58 for the keyword at pos, and the sort of
\* line 61 after the last keyword.
SearchStep(signal, reply) ==
    LET keyword == Keywords[pos]
        q == [query |-> SearchQuery(keyword), sort |-> "stars", order |-> "desc",
              per_page |-> PER_KEYWORD]
        key == SearchKey(q)
        hit == CacheFresh(cache, key, now)
        evicted == key \in DOMAIN cache /\ ~hit
        c1 == CacheAfterGet(cache, key, now)
        results == IF hit THEN cache[key].value
                   ELSE IF signal = "ok" THEN Take(reply, q.per_page) ELSE << >>
        marked == MarkUnseen(results, NamesOf(searchProjects), keyword)
        all_results == AppendUnseen(searchProjects, results, keyword, Len(results))
    IN  /\ pos <= Len(Keywords)
        /\ pos' = NextPlace(pos, signal)
        /\ clientCalls' = clientCalls + 1
        /\ cache' = IF hit
                    THEN Put(c1, key, [time |-> cache[key].time, value |-> marked])
                    ELSE IF signal = "ok"
                         THEN SetCached(c1, key, marked, now)
                         ELSE ReturnUncached(c1, key, << >>, now)
        /\ now' = IF ~hit /\ signal = "ratelimit" THEN now + RATE_LIMIT_SLEEP ELSE now
        /\ lastRet' = Ret("search", key, IF hit THEN "hit" ELSE signal,
                          IF hit THEN 0 ELSE 1, evicted, results)
        /\ searchProjects' = IF pos = Len(Keywords)
                             THEN SortByStarsDesc(all_results)
                             ELSE all_results
        /\ UNCHANGED <<fnVars, ticks, noneCauses, storeVars, workerVars,
                       cyc, runs, provider, trendingProjects, watchlistProjects,
                       highlights, reportSaved, idx, rate_status, fetchedSources, saves>>

\* fetch_watchlist lines 24-48 for the identity at pos: get_repository,
\* then, unless it gave None, get_recent_commits and get_contributors (one
\* request each, no cache) and repo_data.update(...).  commits and
\* contributors are the signals of the two listing calls; an exception that
\* is no GithubException ends the turn before the update (line 46).
WatchStep(signal, reply, commits, contributors) ==
    LET full_name == WATCHLIST[pos - Len(Keywords)]
        key == RepoKey(full_name)
        hit == CacheFresh(cache, key, now)
        evicted == key \in DOMAIN cache /\ ~hit
        c1 == CacheAfterGet(cache, key, now)
        got == hit \/ signal = "ok"
        repo_data == IF hit THEN cache[key].value ELSE reply
        updated == got /\ commits # "raise" /\ contributors # "raise"
        callsMade == IF ~got THEN 1 ELSE IF commits = "raise" THEN 2 ELSE 3
        stored == IF updated THEN TagWatchlist(repo_data) ELSE repo_data
    IN  /\ Len(Keywords) < pos
        /\ pos <= PlanLen
        /\ pos' = NextPlace(pos, signal)
        /\ clientCalls' = clientCalls + callsMade
        /\ cache' = IF hit
                    THEN Put(c1, key, [time |-> cache[key].time, value |-> stored])
                    ELSE IF signal = "ok"
                         THEN SetCached(c1, key, stored, now)
                         ELSE ReturnUncached(c1, key, Null, now)
        /\ noneCauses' = IF ~hit /\ signal \in {"ratelimit", "notfound"}
                         THEN noneCauses \cup {signal}
                         ELSE noneCauses
        /\ lastRet' = Ret("repo", key, IF hit THEN "hit" ELSE signal,
                          callsMade - (IF hit THEN 1 ELSE 0), evicted,
                          IF got THEN repo_data ELSE Null)
        /\ watchlistProjects' = IF updated
                                THEN Append(watchlistProjects, stored)
                                ELSE watchlistProjects
        /\ UNCHANGED <<fnVars, now, ticks, storeVars, workerVars,
                       cyc, runs, provider, trendingProjects, searchProjects,
                       highlights, reportSaved, idx, rate_status, fetchedSources, saves>>

\* What a listing call can do: return a list, catch a GithubException (a
\* rate limit is one) and return [], or let another exception through.
ListingSignals == {"ok", "notfound", "raise"}

PassNext ==
    \/ \E signal \in Signals, reply \in SearchReplies : SearchStep(signal, reply)
    \/ /\ Len(Keywords) < pos
       /\ pos <= PlanLen
       /\ \E signal \in Signals, commits \in ListingSignals,
             contributors \in ListingSignals :
             \E reply \in ProviderRepos(WATCHLIST[pos - Len(Keywords)]) :
                 WatchStep(signal, reply, commits, contributors)

\* The fetch phase, and other calls of the same client in between.
AliasingNext ==
    \/ PassNext
    \/ \E p \in SearchParams, signal \in Signals, reply \in SearchReplies :
          SearchRepositories(p, signal, reply)
    \/ \E id \in Ids, signal \in Signals : \E reply \in ProviderRepos(id) :
          GetRepository(id, signal, reply)

(***************************************************************************)
(* fetcher/trending.py: _parse_star_count                                  *)
(***************************************************************************)
\* _parse_star_count(text)
parse_star_count(text) ==
    LET t == Replace(Replace(Replace(Replace(Lower(text), ",", ""), " ", ""),
                             "stars", ""), "k", "000")
    IN  IF IsFloatText(t) THEN IntOfFloat(t) ELSE 0

\* The star texts handed to _parse_star_count: at most one k in a text.
StarChars == {"0", "1", "2", ",", ".", "k"}
StarTexts ==
    { t \in Texts(StarChars, MaxTextLen) \ {""} : Cardinality(Positions(t, "k")) <= 1 }

ParseStarCount(text) ==
    /\ fnOp' = "_parse_star_count"
    /\ fnArg' = text
    /\ fnOut' = parse_star_count(text)
    /\ UNCHANGED <<passVars, storeVars, clientVars, workerVars, cycleVars>>

\* The entries of a parsed trending page, and the pages of the languages.
TrendingEntries ==
    { [full_name |-> f, name |-> LastSegment(f), stars |-> 1, stars_delta |-> 1,
       description |-> d, source |-> "trending"] :
        f \in {"a/b", "c/Mail"}, d \in {"", "web app", "LLM kit"} }

TrendingListings ==
    [1..Len(TRENDING_LANGUAGES) ->
        UNION { [1..n -> TrendingEntries] : n \in 0..MaxPage }]

FetchAiTrending(listings) ==
    /\ fnOp' = "fetch_ai_trending"
    /\ fnArg' = listings
    /\ fnOut' = fetch_ai_trending(listings)
    /\ UNCHANGED <<passVars, storeVars, clientVars, workerVars, cycleVars>>

\* What the calls of one watchlist pass can do: get_repository answers with
\* a repository, None or an exception, and after a repository the two
\* follow-up calls return or raise.
PassOutcomes(id) ==
    { [signal |-> "ok", value |-> r, commits |-> c, contributors |-> t] :
        r \in ProviderRepos(id), c \in {"ok", "raise"}, t \in {"ok", "raise"} }
    \cup { [signal |-> g, value |-> EmptyDict, commits |-> "ok", contributors |-> "ok"] :
             g \in Signals \ {"ok"} }

WatchPasses ==
    { f \in [1..Len(WATCHLIST) -> UNION { PassOutcomes(i) : i \in Ids }] :
        \A i \in 1..Len(WATCHLIST) : f[i] \in PassOutcomes(WATCHLIST[i]) }

\* The previous_data a caller passes: stored records of some identities.
PreviousData ==
    UNION { [S -> [stars : 1..MaxStars]] : S \in SUBSET Ids }

FetchWatchlist(outcomes) ==
    /\ fnOp' = "fetch_watchlist"
    /\ fnArg' = [outcomes |-> outcomes]
    /\ fnOut' = fetch_watchlist(outcomes)
    /\ UNCHANGED <<passVars, storeVars, clientVars, workerVars, cycleVars>>

GetWatchlistChanges(outcomes, previous_data) ==
    /\ fnOp' = "get_watchlist_changes"
    /\ fnArg' = [outcomes |-> outcomes, previous_data |-> previous_data]
    /\ fnOut' = get_watchlist_changes(outcomes, previous_data)
    /\ UNCHANGED <<passVars, storeVars, clientVars, workerVars, cycleVars>>

\* What search_repositories can do for one keyword: return a page of
\* repositories, return [] after a rate limit or another GithubException, or
\* let an exception through.
SearchRepos ==
    { [full_name |-> id, stars |-> st, forks |-> 1, description |-> Null] :
        id \in Ids \cup {"e/f"}, st \in {1, 2} }

SearchOutcomes ==
    { [signal |-> "ok", value |-> page] :
        page \in UNION { [1..n -> SearchRepos] : n \in 0..MaxPage } }
    \cup { [signal |-> g, value |-> << >>] : g \in Signals \ {"ok"} }

\* The list the loop of search_ai_projects line 40 runs over; after an
\* exception (line 56) the keyword adds nothing.
SearchResults(outcome) ==
    IF outcome.signal = "ok" THEN Take(outcome.value, PER_KEYWORD) ELSE << >>

SearchAiProjects(outcomes) ==
    /\ fnOp' = "search_ai_projects"
    /\ fnArg' = outcomes
    /\ fnOut' = search_ai_projects([i \in 1..Len(Keywords) |-> SearchResults(outcomes[i])])
    /\ UNCHANGED <<passVars, storeVars, clientVars, workerVars, cycleVars>>

\* The three lists run_tracker hands to generate_daily_report: the entry at
\* place i of their concatenation has stars[i] stars.
ReportEntry(stars, i, src) ==
    [full_name |-> "o/r" \o ToString(i), stars |-> stars[i], source |-> src]

ReportLists(stars) ==
    LET n == Len(stars)
        a == n \div 3
        b == 2 * (n \div 3)
    IN  [trending |-> [i \in 1..a |-> ReportEntry(stars, i, "trending")],
         search_results |-> [i \in 1..(b - a) |-> ReportEntry(stars, a + i, "search")],
         watchlist |-> [i \in 1..(n - b) |-> ReportEntry(stars, b + i, "watchlist")]]

StarLists == UNION { [1..n -> {1, 2}] : n \in 0..MaxProjects }

\* generate_daily_report(trending, search_results, watchlist): the rows of
\* the top projects table.
GenerateDailyReport(lists) ==
    /\ fnOp' = "generate_daily_report"
    /\ fnArg' = lists
    /\ fnOut' = TopProjects(lists.trending \o lists.search_results \o lists.watchlist)
    /\ UNCHANGED <<passVars, storeVars, clientVars, workerVars, cycleVars>>

\* One function is applied, once, to arguments drawn from the sets above.
\* The requests search_repositories can be called with: query, sort and
\* order are str (lines 63-65), per_page is int.  The texts are the ones
\* run_tracker uses and all short texts over a letter and the "-" sign.
KeyTexts == Texts({"a", "-"}, 2) \ {""}

SearchRequests ==
    [query : KeyTexts \cup {SearchQuery(Keywords[1])},
     sort : KeyTexts \cup {"stars"},
     order : {"asc", "desc"},
     per_page : {PER_KEYWORD, 30}]

\* Line 79 of search_repositories, for two requests.
SearchCacheKeys(p, q) ==
    /\ fnOp' = "cache_key"
    /\ fnArg' = <<p, q>>
    /\ fnOut' = <<SearchKey(p), SearchKey(q)>>
    /\ UNCHANGED <<passVars, storeVars, clientVars, workerVars, cycleVars>>

AdaptersNext ==
    \/ fnOp = "" /\ \E p \in SearchRequests, q \in SearchRequests : SearchCacheKeys(p, q)
    \/ fnOp = "" /\ \E text \in StarTexts : ParseStarCount(text)
    \/ fnOp = "" /\ \E outcomes \in [1..Len(Keywords) -> SearchOutcomes] :
                       SearchAiProjects(outcomes)
    \/ fnOp = "" /\ \E stars \in StarLists : GenerateDailyReport(ReportLists(stars))
    \/ fnOp = "" /\ \E outcomes \in WatchPasses : FetchWatchlist(outcomes)
    \/ fnOp = "" /\ \E outcomes \in WatchPasses, previous_data \in PreviousData :
                       GetWatchlistChanges(outcomes, previous_data)
    \/ fnOp = "" /\ \E listings \in TrendingListings : FetchAiTrending(listings)

(***************************************************************************)
(* Specifications                                                          *)
(***************************************************************************)
InitCycleVars ==
    /\ cyc = "start"
    /\ runs = 0
    /\ trendingProjects = << >>
    /\ searchProjects = << >>
    /\ watchlistProjects = << >>
    /\ highlights = << >>
    /\ reportSaved = FALSE
    /\ idx = 1
    /\ rate_status = EmptyDict
    /\ fetchedSources = {}
    /\ saves = 0
    /\ pos = 1
    /\ fnOp = ""
    /\ fnArg = << >>
    /\ fnOut = << >>

InitClientWorkers ==
    /\ cache = EmptyDict
    /\ now = 0
    /\ ticks = 0
    /\ clientCalls = 0
    /\ lastRet = Ret("", <<"", "">>, "", 0, FALSE, Null)
    /\ noneCauses = {}
    /\ pc = [w \in Writers |-> "idle"]
    /\ wArgs = [w \in Writers |-> [full_name |-> "", data |-> EmptyDict]]
    /\ wLocal = [w \in Writers |-> EmptyDict]
    /\ overlap = FALSE

InitRestOfDay ==
    /\ InitClientWorkers
    /\ calls = [i \in Ids |-> 0]
    /\ lastCall = [full_name |-> "", data |-> EmptyDict]
    /\ InitCycleVars

InitRest ==
    /\ today = 0
    /\ InitRestOfDay

NoProvider == [stars |-> [i \in Ids |-> 1], trending |-> << >>, search |-> << >>,
               watch |-> << >>,
               quota |-> [token |-> FALSE,
                          core |-> [remaining |-> 60, limit |-> 60, reset |-> 0]]]

\* The store before the writers start: no file yet, or the file an earlier
\* update_project call left.
InitWorkers ==
    /\ \/ fileState = "absent" /\ fileTable = EmptyDict
       \/ /\ fileState = "complete"
          /\ \E id \in Ids : \E data \in Snapshots(id) :
                fileTable = UpdatedProjects(EmptyDict, id, data, 0)
    /\ committed = fileTable
    /\ provider = NoProvider
    /\ InitRest

SpecWorkers == InitWorkers /\ [][WorkersNext]_vars

\* The store before the cycle: no file yet, or the file a cycle of an earlier
\* day left, in which the watchlist pass was the first to see a/b.
InitCycle ==
    /\ \/ fileState = "absent" /\ fileTable = EmptyDict
       \/ /\ fileState = "complete"
          /\ fileTable = UpdatedProjects(EmptyDict, "a/b",
                                         TagWatchlist(DayRepo([i \in Ids |-> 1], "a/b")), 0)
    /\ committed = fileTable
    /\ provider \in ProviderDays
    /\ today = 1
    /\ InitRestOfDay

Spec == InitCycle /\ [][CycleNext]_vars

Init ==
    /\ fileState = "absent"
    /\ fileTable = EmptyDict
    /\ committed = EmptyDict
    /\ provider = NoProvider
    /\ InitRest

SpecStore == Init /\ [][StoreNext]_vars

SpecClient == Init /\ [][ClientNext]_vars

SpecListings == Init /\ [][ListingsNext]_vars

SpecAdapters == Init /\ [][AdaptersNext]_vars

SpecAliasing == Init /\ [][AliasingNext]_vars

\* The fetch phase runs in one thread that nothing stops: a turn that can
\* be taken is taken.
SpecPass == Init /\ [][PassNext]_vars /\ WF_vars(PassNext)

(***************************************************************************)
(* Claims about the store                                                  *)
(***************************************************************************)
\* record.get("history", []) of a stored record
History(table, id) == Get(table[id], "history", <<>>)

IsPrefix(s, t) == Len(s) <= Len(t) /\ SubSeq(t, 1, Len(s)) = s

\* The step is an update_project call for id.
Upserts(id) == calls'[id] = calls[id] + 1

\* C1: starting from an absent record, after n >= 1 update_project calls for
\* an identity its history has exactly n-1 entries, and the entry a call
\* appends holds the stars/forks stored before that call (0 for one that was
\* not stored), not those of the snapshot being written.
C1_HistoryAppend ==
    [][\A id \in Ids : Upserts(id) =>
          /\ id \in DOMAIN fileTable'
          /\ Len(History(fileTable', id)) = calls'[id] - 1
          /\ calls[id] >= 1 =>
                LET old == fileTable[id]
                    e == History(fileTable', id)[calls[id]]
                IN  /\ e.stars = old["stars"]
                    /\ e.forks = (IF "forks" \in DOMAIN old THEN old["forks"] ELSE 0)
                    /\ e.date = today]_vars

\* Three calls were made for one identity, and the entry the last one appended
\* differs in stars from the snapshot it wrote.
C1_Witness ==
    \E id \in Ids :
        /\ calls[id] = 3
        /\ Len(History(fileTable, id)) = 2
        /\ History(fileTable, id)[2].stars # fileTable[id]["stars"]
        /\ History(fileTable, id)[2].stars # History(fileTable, id)[1].stars

\* C2: the table holds exactly one record per upserted identity, filed under
\* its own name, and history is append-only: across any update_project call
\* the history already stored for every identity is a prefix of the new one,
\* and the records of the other identities are untouched.
C2_HistoryAppendOnly ==
    [][\A id \in Ids : Upserts(id) =>
          /\ DOMAIN fileTable' = { i \in Ids : calls'[i] > 0 }
          /\ \A i \in DOMAIN fileTable' : fileTable'[i]["full_name"] = i
          /\ \A i \in DOMAIN load_projects :
                /\ IsPrefix(History(fileTable, i), History(fileTable', i))
                /\ i # id => fileTable'[i] = fileTable[i]]_vars

\* An identity has two history entries, appended on different days, while the
\* snapshot stored last differs from both.
C2_Witness ==
    \E id \in DOMAIN load_projects :
        /\ Len(History(fileTable, id)) = 2
        /\ History(fileTable, id)[1].date # History(fileTable, id)[2].date
        /\ lastCall.full_name = id

\* The keys whose value may be None.
NullableKeys == {"description"}

IsNull(d, k) == k \in NullableKeys /\ d[k] = Null

\* C3: after update_project every field holds the new snapshot's value when
\* that value is not None, and otherwise (missing from the snapshot, or None
\* in it) the value of the old record: None never erases a known value.
C3_MergeKeepsNonNull ==
    [][\A id \in Ids : (Upserts(id) /\ id \in DOMAIN load_projects) =>
          LET old == fileTable[id]
              new == fileTable'[id]
              data == lastCall'.data
          IN  \A k \in (DOMAIN old \cup DOMAIN data) \ {"history"} :
                IF k \in DOMAIN data /\ ~IsNull(data, k)
                THEN new[k] = data[k]
                ELSE k \in DOMAIN old => new[k] = old[k]]_vars

(***************************************************************************)
(* Claims about the client                                                 *)
(***************************************************************************)
\* The step is a call of a client method.
ClientCall == clientCalls' = clientCalls + 1

\* C5: a call whose key was stored less than TTL ago returns the stored
\* value and performs no underlying request; the first call at or after TTL
\* is a miss that performs exactly one request and, when that request
\* succeeds, stores its value again so that the key is fresh once more.
C5_CacheHitMiss ==
    [][ClientCall =>
          LET k == lastRet'.key
          IN  k \in DOMAIN cache =>
                IF now - cache[k].time < CACHE_TTL_SECONDS
                THEN /\ lastRet'.requests = 0
                     /\ lastRet'.value = cache[k].value
                     /\ cache' = cache
                ELSE /\ lastRet'.requests = 1
                     /\ lastRet'.signal # "hit"
                     /\ lastRet'.signal = "ok" =>
                           /\ k \in DOMAIN cache'
                           /\ cache'[k] = [time |-> now, value |-> lastRet'.value]
                           /\ now' - cache'[k].time < CACHE_TTL_SECONDS]_vars

\* A call found its entry expired exactly at TTL, made one request and
\* stored the new value, while an entry of another key, one second younger,
\* is still held.
C5_Witness ==
    /\ lastRet.evicted
    /\ lastRet.signal = "ok"
    /\ lastRet.requests = 1
    /\ now = CACHE_TTL_SECONDS
    /\ cache[lastRet.key].time = now
    /\ \E k \in DOMAIN cache : cache[k].time = 1

\* What a successful search_repositories call can return.
SearchOkValues == { Take(reply, PER_KEYWORD) : reply \in SearchReplies }

\* C6: a search call that the provider throttled returns something its
\* caller can tell from a successful result, never an empty result list.
C6_ThrottledSearchDistinct ==
    (lastRet.op = "search" /\ lastRet.signal = "ratelimit") =>
        /\ lastRet.value # << >>
        /\ lastRet.value \notin SearchOkValues

\* C20: get_recent_commits and get_contributors, called again with the same
\* parameters less than TTL after a call that succeeded, are served from the
\* cache: the second call makes no underlying request.
C20_CommitsContributorsCached ==
    [][(/\ ClientCall
        /\ lastRet.op \in {"commits", "contributors"}
        /\ lastRet.signal = "ok"
        /\ lastRet'.op = lastRet.op
        /\ lastRet'.key = lastRet.key
        /\ now - lastRet.at < CACHE_TTL_SECONDS) =>
          /\ lastRet'.requests = 0
          /\ lastRet'.value = lastRet.value]_vars

\* C7: get_repository never reports a not-found identity and a rate-limited
\* request by the same return value.
C7_NotFoundVsRateLimited ==
    ~({"notfound", "ratelimit"} \subseteq noneCauses)

(***************************************************************************)
(* Claims about writers and crashes                                        *)
(***************************************************************************)
\* C8: when a crash interrupts save_projects, the file still holds the
\* complete table committed before (or no file exists yet): it is never
\* left empty or holding a part of a document.
C8_CrashKeepsCommitted ==
    (\E w \in Writers : pc[w] = "crashed") =>
        /\ fileState \in {"absent", "complete"}
        /\ fileState = "complete" => fileTable = committed

\* C9: when two writers have both finished update_project for different
\* identities, the file is a complete table that holds what each of them
\* wrote for its identity.
C9_NoLostUpdate ==
    (/\ \A w \in Writers : pc[w] = "done"
     /\ wArgs[1].full_name # wArgs[2].full_name) =>
        /\ fileState = "complete"
        /\ \A w \in Writers :
              /\ wArgs[w].full_name \in DOMAIN fileTable
              /\ \A k \in DOMAIN wArgs[w].data :
                    fileTable[wArgs[w].full_name][k] = wArgs[w].data[k]

(***************************************************************************)
(* Claims about the cycle                                                  *)
(***************************************************************************)
\* The entries of a list that carry the identity id.
Occurrences(seq, id) == { i \in 1..Len(seq) : Get(seq[i], "full_name", "") = id }

\* C4: an identity that two different adapters returned in one cycle has
\* exactly one entry in the combined list that feeds the highlights and the
\* store, and at most one row among the highlights.
C4_GlobalDedup ==
    cyc \in {"reported", "done"} =>
        \A id \in Ids :
            (\/ id \in NamesOf(searchProjects) \cap NamesOf(watchlistProjects)
             \/ id \in NamesOf(trendingProjects) \cap NamesOf(searchProjects)
             \/ id \in NamesOf(trendingProjects) \cap NamesOf(watchlistProjects)) =>
                /\ Cardinality(Occurrences(all_projects, id)) = 1
                /\ Cardinality(Occurrences(highlights, id)) = 1

\* The entries of a history that carry the date day.
Dated(history, day) == { i \in 1..Len(history) : history[i].date = day }

\* C10: when a cycle that crashed in its update loop was run again for the
\* same date and the rerun has run to its end, projects.json is a whole
\* document and no identity has more than one history entry of that date
\* (for cycles in which the adapters returned every identity at most once).
C10_RerunIdempotent ==
    (/\ runs = 2
     /\ cyc = "done"
     /\ \A id \in Ids : Cardinality(Occurrences(all_projects, id)) <= 1) =>
        /\ fileState \in {"absent", "complete"}
        /\ \A id \in DOMAIN load_projects :
              Cardinality(Dated(History(fileTable, id), today)) <= 1

\* C11: in a cycle that ran to its end with at least one project, the
\* project table was written exactly once, after all record changes of the
\* cycle were computed.
C11_SingleCommit ==
    (cyc = "done" /\ Len(all_projects) >= 1) => saves = 1

\* C14: when the quota status read at the start of the cycle shows less
\* remaining than the configured reserve, the cycle does not go on to call
\* every source adapter: it stays before the fetches, or leaves one out.
C14_QuotaGate ==
    (cyc # "start" /\ rate_status.remaining < API_RATE_LIMIT_BUFFER) =>
        fetchedSources # {"trending", "search", "watchlist"}

(***************************************************************************)
(* Claims about the adapter functions                                      *)
(***************************************************************************)
\* A number without sign: digits, no leading zero.
IsNumber(text) ==
    /\ text # ""
    /\ IsDigits(text)
    /\ Len(text) > 1 => SubSeq(text, 1, 1) # "0"

\* A comma-grouped number: one to three digits, then groups of three digits.
IsGrouped(text) ==
    LET commas == Positions(text, ",")
    IN  /\ commas # {}
        /\ IsNumber(Replace(text, ",", ""))
        /\ \A i \in commas : (Len(text) - i) % 4 = 3
        /\ \A i \in 1..Len(text) : (Len(text) - i) % 4 = 3 => i \in commas
        /\ 1 \notin commas

\* A number of thousands: digits, possibly a point and one to three more
\* digits, then k.
IsThousands(text) ==
    /\ Len(text) >= 2
    /\ SubSeq(text, Len(text), Len(text)) = "k"
    /\ LET m == SubSeq(text, 1, Len(text) - 1)
           dots == Positions(m, ".")
       IN  \/ IsNumber(m)
           \/ /\ Cardinality(dots) = 1
              /\ LET dot == CHOOSE i \in dots : TRUE
                 IN  /\ IsNumber(SubSeq(m, 1, dot - 1))
                     /\ IsDigits(SubSeq(m, dot + 1, Len(m)))
                     /\ Len(m) - dot \in 1..3

RECURSIVE Pow10(_)
Pow10(n) == IF n = 0 THEN 1 ELSE 10 * Pow10(n - 1)

\* The count a star text denotes.
Denoted(text) ==
    IF IsThousands(text)
    THEN LET m == SubSeq(text, 1, Len(text) - 1)
             dots == Positions(m, ".")
         IN  IF dots = {} THEN 1000 * DigitsValue(m)
             ELSE LET dot == CHOOSE i \in dots : TRUE
                  IN  1000 * DigitsValue(SubSeq(m, 1, dot - 1))
                      + DigitsValue(SubSeq(m, dot + 1, Len(m))) * Pow10(3 - (Len(m) - dot))
    ELSE DigitsValue(Replace(text, ",", ""))

\* C18: for a plain number, a comma-grouped number and a number of thousands
\* with or without a decimal part, _parse_star_count returns the count the
\* text denotes ("1,200" and "1.2k" both give 1200, "2k" gives 2000).
C18_StarTextValue ==
    (/\ fnOp = "_parse_star_count"
     /\ IsNumber(fnArg) \/ IsGrouped(fnArg) \/ IsThousands(fnArg)) =>
        fnOut = Denoted(fnArg)

\* Two strings are equal but for the case of their letters.
SameIgnoringCase(a, b) ==
    /\ Len(a) = Len(b)
    /\ \A i \in 1..Len(a) : LowerChar(SubSeq(a, i, i)) = LowerChar(SubSeq(b, i, i))

\* The name, a space and the description of a listing hold a configured
\* keyword somewhere, compared without regard to case.
HoldsKeyword(repo) ==
    LET text == repo.name \o " " \o repo.description
    IN  \E k \in 1..Len(Keywords) :
            \E i \in 0..(Len(text) - Len(Keywords[k])) :
                SameIgnoringCase(SubSeq(text, i + 1, i + Len(Keywords[k])), Keywords[k])

\* The listings of pages, in listing order: page by page, top to bottom.
ListingPositions(listings) ==
    { <<l, j>> : l \in 1..Len(listings), j \in 1..MaxPage + 1 } \cap
    { p \in (1..Len(listings)) \X (1..MaxPage + 1) : p[2] <= Len(listings[p[1]]) }

Earlier(p, q) == p[1] < q[1] \/ (p[1] = q[1] /\ p[2] < q[2])

\* C19: fetch_ai_trending keeps a parsed listing if and only if its name plus
\* description holds a configured keyword, case-insensitively: the output is
\* exactly the listings that do, each at the place its listing order gives it.
C19_TrendingFilter ==
    fnOp = "fetch_ai_trending" =>
        LET kept == { p \in ListingPositions(fnArg) : HoldsKeyword(fnArg[p[1]][p[2]]) }
        IN  /\ Len(fnOut) = Cardinality(kept)
            /\ \A p \in kept :
                  fnOut[Cardinality({ q \in kept : Earlier(q, p) }) + 1] = fnArg[p[1]][p[2]]

\* Two pages were filtered: a listing matched by the keyword "AI" inside the
\* lower-case name "Mail", one matched by "llm" in an upper-case description,
\* and one without a keyword that was dropped between kept ones.
C19_Witness ==
    /\ fnOp = "fetch_ai_trending"
    /\ Len(fnOut) = 3
    /\ \E l \in 1..Len(fnArg) : Len(fnArg[l]) = 2 /\ ~HoldsKeyword(fnArg[l][1])
                                  /\ HoldsKeyword(fnArg[l][2])
    /\ \E i \in 1..3 : fnOut[i].name = "Mail" /\ fnOut[i].description = "web app"
    /\ \E i \in 1..3 : fnOut[i].name = "b" /\ fnOut[i].description = "LLM kit"

\* The places of the watchlist whose identity was fetched.
FetchedPlaces(outcomes) == { i \in 1..Len(WATCHLIST) : Fetched(outcomes[i]) }

\* C12: for each fetched identity the delta is its current stars less the
\* stars previous_data holds for it (0 for an identity it does not hold);
\* the identity is in the changes if and only if that delta is above zero,
\* once, and its entry carries the delta as stars_delta.
C12_DeltaCorrect ==
    fnOp = "get_watchlist_changes" =>
        LET prev == fnArg.previous_data
            cur(i) == fnArg.outcomes[i].value
            delta(i) == cur(i).stars - (IF WATCHLIST[i] \in DOMAIN prev
                                        THEN prev[WATCHLIST[i]].stars ELSE 0)
        IN  /\ \A i \in FetchedPlaces(fnArg.outcomes) :
                  LET at == Occurrences(fnOut, WATCHLIST[i])
                  IN  IF delta(i) > 0
                      THEN /\ Cardinality(at) = 1
                           /\ \A j \in at : /\ fnOut[j].stars_delta = delta(i)
                                            /\ fnOut[j].stars = cur(i).stars
                      ELSE at = {}
            /\ \A j \in 1..Len(fnOut) :
                  \E i \in FetchedPlaces(fnArg.outcomes) : fnOut[j].full_name = WATCHLIST[i]

\* One identity grew from 1 to 2 stars and is the only change, while the
\* other, fetched too, kept its stars and is left out.
C12_Witness ==
    /\ fnOp = "get_watchlist_changes"
    /\ FetchedPlaces(fnArg.outcomes) = {1, 2}
    /\ DOMAIN fnArg.previous_data = Ids
    /\ Len(fnOut) = 1
    /\ fnOut[1].stars_delta = 1
    /\ fnOut[1].stars = 2
    /\ \E i \in 1..2 : fnArg.outcomes[i].value.stars = fnArg.previous_data[WATCHLIST[i]].stars

\* C13: whatever identities fail (get_repository returns None or raises, or
\* a follow-up call raises), fetch_watchlist returns a list that holds a
\* snapshot of every other identity of the watchlist and of no failed one,
\* in watchlist order.
C13_PartialFailure ==
    fnOp = "fetch_watchlist" =>
        LET ok == FetchedPlaces(fnArg.outcomes)
        IN  /\ Len(fnOut) = Cardinality(ok)
            /\ \A i \in ok :
                  LET snap == fnOut[Cardinality({ j \in ok : j < i }) + 1]
                  IN  /\ snap.full_name = WATCHLIST[i]
                      /\ snap.stars = fnArg.outcomes[i].value.stars
                      /\ snap.source = "watchlist"

\* get_repository raised for the first identity of the watchlist, and the
\* second one was fetched and returned.
C13_Witness ==
    /\ fnOp = "fetch_watchlist"
    /\ fnArg.outcomes[1].signal = "raise"
    /\ fnArg.outcomes[2].signal = "ok"
    /\ Len(fnOut) = 1
    /\ fnOut[1].full_name = WATCHLIST[2]

\* The places <<keyword, position>> at which the searches returned name.
Found(outcomes, name) ==
    { p \in (1..Len(outcomes)) \X (1..MaxPage + 1) :
        /\ p[2] <= Len(SearchResults(outcomes[p[1]]))
        /\ SearchResults(outcomes[p[1]])[p[2]].full_name = name }

\* The first of these places, in keyword order and then page order.
FirstFound(outcomes, name) ==
    CHOOSE p \in Found(outcomes, name) : \A q \in Found(outcomes, name) : ~Earlier(q, p)

\* C16: the output of search_ai_projects holds every identity a successful
\* query returned exactly once, and no other; its entry is the first
\* occurrence, tagged with the first keyword (in configured order) whose
\* query returned it; a query that fails leaves the results of the other
\* keywords in the output.
C16_SearchDedup ==
    fnOp = "search_ai_projects" =>
        /\ \A name \in Ids \cup {"e/f"} :
              Cardinality(Occurrences(fnOut, name)) =
                  (IF Found(fnArg, name) = {} THEN 0 ELSE 1)
        /\ \A i \in 1..Len(fnOut) :
              LET p == FirstFound(fnArg, fnOut[i].full_name)
              IN  /\ fnOut[i].source_keyword = Keywords[p[1]]
                  /\ fnOut[i].stars = SearchResults(fnArg[p[1]])[p[2]].stars
                  /\ fnOut[i].source = "search"

\* The first keyword's query raised; the second returned one identity
\* twice, with different stars: the output holds it once, with the stars of
\* its first occurrence and the second keyword as tag.
C16_Witness ==
    /\ fnOp = "search_ai_projects"
    /\ fnArg[1].signal = "raise"
    /\ Len(SearchResults(fnArg[2])) = 2
    /\ Len(fnOut) = 1
    /\ SearchResults(fnArg[2])[1].stars # SearchResults(fnArg[2])[2].stars
    /\ fnOut[1].stars = SearchResults(fnArg[2])[1].stars
    /\ fnOut[1].source_keyword = Keywords[2]

\* C17: the output of search_ai_projects is in descending order of stars,
\* and of two entries with equal stars the one discovered first (earlier
\* keyword, or earlier in the same page) comes first.
C17_SearchOrder ==
    fnOp = "search_ai_projects" =>
        \A i, j \in 1..Len(fnOut) : i < j =>
            /\ fnOut[i].stars >= fnOut[j].stars
            /\ fnOut[i].stars = fnOut[j].stars =>
                  Earlier(FirstFound(fnArg, fnOut[i].full_name),
                          FirstFound(fnArg, fnOut[j].full_name))

\* Three identities in the output: the first has more stars than the other
\* two though it was discovered last, and the other two, equal in stars,
\* were discovered by different keywords.
C17_Witness ==
    /\ fnOp = "search_ai_projects"
    /\ Len(fnOut) = 3
    /\ fnOut[1].stars > fnOut[2].stars
    /\ fnOut[2].stars = fnOut[3].stars
    /\ fnOut[1].source_keyword = Keywords[2]
    /\ fnOut[2].source_keyword = Keywords[1]
    /\ fnOut[3].source_keyword = Keywords[2]
    /\ Earlier(FirstFound(fnArg, fnOut[3].full_name), FirstFound(fnArg, fnOut[1].full_name))

\* The smaller of two numbers.
Min(a, b) == IF a < b THEN a ELSE b

\* C15: the top projects table holds the K = 10 entries of highest stars
\* among all results handed to the report (all of them when there are fewer),
\* in descending order of stars, entries of equal stars in their discovery
\* order: the entry at place j of the concatenated results stands at the
\* place that counts the entries with more stars and the earlier entries with
\* the same stars.
C15_HighlightsRanking ==
    fnOp = "generate_daily_report" =>
        LET all == fnArg.trending \o fnArg.search_results \o fnArg.watchlist
            rank(j) == Cardinality({ i \in 1..Len(all) : all[i].stars > all[j].stars })
                       + Cardinality({ i \in 1..(j - 1) : all[i].stars = all[j].stars }) + 1
        IN  /\ Len(fnOut) = Min(TOP_K, Len(all))
            /\ \A j \in 1..Len(all) : rank(j) <= TOP_K => fnOut[rank(j)] = all[j]

\* Eleven results, more than the table takes: the one left out is not the
\* last discovered, and the table holds entries of equal stars from
\* different sources.
C15_Witness ==
    /\ fnOp = "generate_daily_report"
    /\ Len(fnArg.trending \o fnArg.search_results \o fnArg.watchlist) = TOP_K + 1
    /\ Len(fnOut) = TOP_K
    /\ Occurrences(fnOut, "o/r10") = {}
    /\ fnOut[1].source = "search"
    /\ fnOut[2].source = "watchlist"
    /\ fnOut[1].stars = fnOut[2].stars

(***************************************************************************)
(* Claims about failures of a cycle                                        *)
(***************************************************************************)
\* C21: when a cycle fails on an unexpected error, the process ends with a
\* non-zero exit status and the run has left neither a saved report nor a
\* part of its updates of the project table behind.
C21_FailureLeavesNothing ==
    cyc = "failed" =>
        /\ ExitStatus # 0
        /\ ~reportSaved
        /\ saves = 0

\* C23: in one run_tracker cycle the persisted history of an identity grows
\* by at most one entry, however many times the adapters returned the
\* identity.  Every stored history is empty when the first cycle starts, so
\* in that cycle the growth of a history is its length.
C23_HistoryGrowsByOne ==
    (runs = 1 /\ fileState = "complete") =>
        \A id \in DOMAIN fileTable : Len(History(fileTable, id)) <= 1

FailSignals == {"ratelimit", "notfound"}

\* C26: a search_repositories or get_repository call that ends in a rate
\* limit or an API error stores nothing: its key is not in the cache
\* afterwards and every other entry is as it was; an entry appears or
\* changes only in a call whose request succeeded, and holds what that call
\* returned; and the next call with the key of a failed call performs the
\* request again.
C26_FailedNotCached ==
    [][ClientCall =>
          /\ lastRet'.signal \in FailSignals =>
                /\ lastRet'.key \notin DOMAIN cache'
                /\ \A k \in DOMAIN cache' : k \in DOMAIN cache /\ cache'[k] = cache[k]
          /\ \A k \in DOMAIN cache' :
                (k \notin DOMAIN cache \/ cache'[k] # cache[k]) =>
                    /\ lastRet'.signal = "ok"
                    /\ k = lastRet'.key
                    /\ cache'[k].value = lastRet'.value
          /\ (lastRet.signal \in FailSignals /\ lastRet'.key = lastRet.key) =>
                lastRet'.requests = 1]_vars

\* A call was throttled after its entry had expired: the expired entry is
\* gone, nothing took its place, and an entry of another key is still held.
C26_Witness ==
    /\ lastRet.signal = "ratelimit"
    /\ lastRet.evicted
    /\ lastRet.key \notin DOMAIN cache
    /\ cache # EmptyDict

\* What a successful get_repository call can return.
RepoOkValues == UNION { ProviderRepos(id) : id \in Ids }

\* C25: a value is not modified after it was stored, so a call answered from
\* the cache returns what an underlying request produced, a repository as
\* _extract_repo_data builds it (or a list of them), whatever the adapters
\* did to the values earlier calls returned.
C25_HitReturnsProduced ==
    lastRet.signal = "hit" =>
        IF lastRet.op = "repo"
        THEN lastRet.value \in RepoOkValues
        ELSE lastRet.value \in SearchOkValues

(***************************************************************************)
(* Claims about termination                                                *)
(***************************************************************************)
\* The client calls made before the fetch phase reaches place: one per
\* keyword, at most three per watchlist identity.
CallsUpTo(place) ==
    Min(place - 1, Len(Keywords)) + 3 * (place - 1 - Min(place - 1, Len(Keywords)))

\* C22: whatever the provider signals, a turn of the fetch phase makes at
\* most one underlying request per client call and waits at most one
\* rate-limit sleep per call, then goes on to the next place; the calls and
\* the waits of the phase are bounded by the lengths of the lists; and the
\* phase comes to its end.
C22_BoundedCallsTerminate ==
    /\ [][pos' # pos =>
            /\ pos' = pos + 1
            /\ lastRet'.requests <= clientCalls' - clientCalls
            /\ now' - now <= RATE_LIMIT_SLEEP * (clientCalls' - clientCalls)]_vars
    /\ [](/\ clientCalls <= CallsUpTo(pos)
          /\ now <= RATE_LIMIT_SLEEP * Min(pos - 1, Len(Keywords)))
    /\ <>(pos = PlanLen + 1)

\* The phase has come to its end with the provider throttling every call:
\* one request and one sleep per keyword, one request per identity, nothing
\* fetched.
C22_Witness ==
    /\ pos = PlanLen + 1
    /\ now = RATE_LIMIT_SLEEP * Len(Keywords)
    /\ clientCalls = PlanLen
    /\ noneCauses = {"ratelimit"}
    /\ lastRet.signal = "ratelimit"
    /\ searchProjects = << >>
    /\ watchlistProjects = << >>

================================================================
